---- MODULE Spec2Model ----
(***************************************************************************)
(* Table allocation and double-booking guard of the restaurant booking     *)
(* system: app/reservation_service.py (view based tables, +-2 hour         *)
(* conflict window) and app/services/booking_service.py (section based     *)
(* tables, combined pairs).                                                *)
(*                                                                         *)
(* Times are whole hours counted from the first bookable hour.             *)
(* A database row set is a function from primary keys to rows.             *)
(***************************************************************************)
EXTENDS Integers, Sequences, FiniteSets, TLC

VARIABLES
    tables,        \* reservation_service: tables       id -> row
    reservations,  \* reservation_service: reservations id -> row
    clock,         \* reading of datetime.utcnow used for created_at
    last,          \* response of the most recent call, until it is delivered
    sessions,      \* concurrent create_reservation calls: session -> progress
    bs_tables,        \* BookingService: tables       id -> row
    bs_reservations   \* BookingService: reservations id -> row

vars == <<tables, reservations, clock, last, sessions, bs_tables, bs_reservations>>

(***************************************************************************)
(* Bounds of the model and constants of the program.                       *)
(***************************************************************************)
MaxRes == 2
WindowHours == 2

\* The hours a reservation can be asked for: two of them lie strictly inside
\* each other's window, two on its edge and two outside it.
Times == {0, WindowHours, WindowHours + 1}
NoView == "none"
NoTable == 0
Customers == {"alice"}

\* The tables the model starts from: a slice of the seed data.
SeedTables ==
    1 :> [capacity |-> 2, view |-> "lake",   is_available |-> TRUE] @@
    2 :> [capacity |-> 4, view |-> "lake",   is_available |-> TRUE] @@
    3 :> [capacity |-> 2, view |-> "garden", is_available |-> TRUE]

\* Requests name no view or the lake view, for a party of one table or two.
RequestViews == {NoView, "lake"}
PartySizes == {2, 4}

(***************************************************************************)
(* Helpers over rows.                                                      *)
(***************************************************************************)
Max(S) == CHOOSE x \in S : \A y \in S : y <= x

NextId(rows) == IF DOMAIN rows = {} THEN 1 ELSE Max(DOMAIN rows) + 1

Insert(rows, row) ==
    [i \in DOMAIN rows \cup {NextId(rows)} |->
        IF i \in DOMAIN rows THEN rows[i] ELSE row]

between_exclusive(x, lo, hi) == lo < x /\ x < hi

\* SQL "x BETWEEN lo AND hi": both ends included.
between(x, lo, hi) == lo <= x /\ x <= hi

overlap_any_status(res, table_id, t) ==
    {i \in DOMAIN res :
        /\ res[i].table_id = table_id
        /\ between(res[i].reservation_time, t - WindowHours, t + WindowHours)}

\* The confirmed reservations of table_id inside the window around t.
overlap(res, table_id, t) ==
    {i \in DOMAIN res :
        /\ res[i].table_id = table_id
        /\ res[i].status = "confirmed"
        /\ between(res[i].reservation_time, t - WindowHours, t + WindowHours)}

booked_tables_query_exact_slot(res, t) ==
    {res[i].table_id : i \in
        {j \in DOMAIN res :
            res[j].status = "confirmed" /\ res[j].reservation_time = t}}

\* The ids of the tables with a confirmed reservation inside the window.
booked_tables_query(res, t) ==
    {res[i].table_id : i \in
        {j \in DOMAIN res :
            /\ res[j].status = "confirmed"
            /\ between(res[j].reservation_time, t - WindowHours, t + WindowHours)}}

\* ORDER BY capacity (descending when desc): rows of equal capacity come in
\* whatever order the database returns them.
OrderByCapacity(tbls, S, desc) ==
    {s \in [1..Cardinality(S) -> S] :
        /\ \A i, j \in 1..Cardinality(S) : i # j => s[i] # s[j]
        /\ \A i, j \in 1..Cardinality(S) : i < j =>
              IF desc THEN tbls[s[i]].capacity >= tbls[s[j]].capacity
                      ELSE tbls[s[i]].capacity <= tbls[s[j]].capacity}

RECURSIVE SumCapacity(_, _)
SumCapacity(tbls, s) ==
    IF s = <<>> THEN 0 ELSE tbls[Head(s)].capacity + SumCapacity(tbls, Tail(s))

\* Position of x in the sequence s.
IndexOf(s, x) == CHOOSE k \in DOMAIN s : s[k] = x

\* sorted(tables, key=capacity, reverse=True): a stable sort, rows of equal
\* capacity keep the order they have in s.
sorted_by_capacity_desc(tbls, s) ==
    CHOOSE p \in OrderByCapacity(tbls, {s[k] : k \in DOMAIN s}, TRUE) :
        \A i, j \in DOMAIN p :
            (i < j /\ tbls[p[i]].capacity = tbls[p[j]].capacity)
                => IndexOf(s, p[i]) < IndexOf(s, p[j])

Prefix(s, n) == SubSeq(s, 1, IF Len(s) < n THEN Len(s) ELSE n)

(***************************************************************************)
(* get_available_tables: the possible results (list of table ids, exact).  *)
(* max_capacity = 0 stands for None (both are falsy in the source).         *)
(***************************************************************************)
get_available_tables(tbls, res, party_size, reservation_time, preferred_view, max_capacity) ==
    LET query == {id \in DOMAIN tbls :
                    /\ tbls[id].is_available
                    /\ id \notin booked_tables_query(res, reservation_time)
                    /\ (preferred_view # NoView => tbls[id].view = preferred_view)}
        cap_limit == IF max_capacity # 0 THEN max_capacity ELSE party_size * 2
        exact_matches == {id \in query : /\ tbls[id].capacity >= party_size
                                         /\ tbls[id].capacity <= cap_limit}
        smaller_tables == {id \in query : /\ tbls[id].capacity < party_size
                                          /\ tbls[id].capacity >= 2}
        larger_tables == {id \in query : tbls[id].capacity > party_size}
    IN  IF exact_matches # {}
        THEN {[tables |-> s, exact |-> TRUE] :
                 s \in OrderByCapacity(tbls, exact_matches, FALSE)}
        ELSE IF (max_capacity = 0 \/ max_capacity < party_size * 2) /\ smaller_tables # {}
        THEN {[tables |-> s, exact |-> FALSE] :
                 s \in OrderByCapacity(tbls, smaller_tables, TRUE)}
        ELSE {[tables |-> s, exact |-> FALSE] :
                 s \in OrderByCapacity(tbls, larger_tables, FALSE)}

\* The loop of find_best_table_combination over sorted_tables.
RECURSIVE select_tables(_, _, _, _)
select_tables(tbls, sorted_tables, remaining_people, selected_tables) ==
    IF sorted_tables = <<>> \/ remaining_people <= 0
    THEN selected_tables
    ELSE LET table == Head(sorted_tables)
             take == tbls[table].capacity <= remaining_people
             sel == IF take THEN Append(selected_tables, table) ELSE selected_tables
             rem == IF take THEN remaining_people - tbls[table].capacity
                            ELSE remaining_people
         IN  select_tables(tbls, Tail(sorted_tables), rem, sel)

NoSuggestion == [tables |-> <<>>, total_capacity |-> -1, is_exact_match |-> FALSE,
                 other_view_suggestions |-> <<>>, kind |-> "None"]

\* find_best_table_combination: the possible TableSuggestion results.
find_best_table_combination(tbls, res, party_size, reservation_time, preferred_view) ==
    UNION {
        LET selected_tables ==
                select_tables(tbls, sorted_by_capacity_desc(tbls, got.tables),
                              party_size, <<>>)
        IN  IF got.exact /\ got.tables # <<>>
            THEN {[tables |-> <<got.tables[1]>>,
                   total_capacity |-> tbls[got.tables[1]].capacity,
                   is_exact_match |-> TRUE,
                   other_view_suggestions |-> <<>>,
                   kind |-> "TableSuggestion"]}
            ELSE IF ~got.exact /\ got.tables # <<>> /\ selected_tables # <<>>
                    /\ SumCapacity(tbls, selected_tables) >= party_size
            THEN {[tables |-> selected_tables,
                   total_capacity |-> SumCapacity(tbls, selected_tables),
                   is_exact_match |-> FALSE,
                   other_view_suggestions |-> <<>>,
                   kind |-> "TableSuggestion"]}
            ELSE {[tables |-> <<>>,
                   total_capacity |-> 0,
                   is_exact_match |-> FALSE,
                   other_view_suggestions |->
                       IF preferred_view # NoView THEN Prefix(other.tables, 5) ELSE <<>>,
                   kind |-> "TableSuggestion"] :
                  other \in get_available_tables(tbls, res, party_size,
                                                 reservation_time, NoView, 0)}
        : got \in get_available_tables(tbls, res, party_size, reservation_time,
                                       preferred_view, 0)}

(***************************************************************************)
(* Requests and responses.                                                 *)
(***************************************************************************)
\* reservation: the id of the reservation the response is about (the one a
\* create made, the one a cancel or reschedule was asked for), 0 for None.
\* raised: the call ended in an exception (message is its text).
\* args: the arguments the call was made with.
Response(op, args, success, message, suggestions, reservation) ==
    [op |-> op, args |-> args, success |-> success, message |-> message,
     suggestions |-> suggestions, reservation |-> reservation, raised |-> FALSE]

Raised(op, args, message) ==
    [op |-> op, args |-> args, success |-> FALSE, message |-> message,
     suggestions |-> NoSuggestion, reservation |-> 0, raised |-> TRUE]

\* getattr(reservation, 'items', None): the pre-order lines of a request.
ItemsOf(request) == IF "items" \in DOMAIN request THEN request.items ELSE <<>>

\* Lines 247-260: the lines saved with the reservation, those of a positive
\* quantity.
saved_items(items) == SelectSeq(items, LAMBDA item : item.quantity > 0)

NewReservation(request, table_id, party_size, now) ==
    [customer_name |-> request.customer_name,
     reservation_time |-> request.reservation_time,
     party_size |-> party_size,
     table_id |-> table_id,
     status |-> "confirmed",
     items |-> saved_items(ItemsOf(request)),
     created_at |-> now]

Requests ==
    [customer_name : Customers, reservation_time : Times, party_size : PartySizes,
     preferred_view : RequestViews, items : {<<>>},
     table_id : DOMAIN SeedTables \cup {NoTable, Max(DOMAIN SeedTables) + 1}]

\* Pre-order lines: none, one line, one line of quantity 0.
ItemLists ==
    {<<>>, <<[menu_item_id |-> 1, quantity |-> 1]>>,
     <<[menu_item_id |-> 1, quantity |-> 0]>>}

\* Requests with pre-order lines, for the first table or any lake table.
ItemRequests ==
    [customer_name : Customers, reservation_time : Times, party_size : {2},
     preferred_view : {"lake"}, items : ItemLists, table_id : {NoTable, 1}]

\* The result of one call: the committed rows and the response.
Outcome(res, response) == [reservations |-> res, response |-> response]

(***************************************************************************)
(* create_reservation with request.table_id set (lines 169-267).           *)
(***************************************************************************)
NotAvailableMessage ==
    "Selected table is not available at that time. Here are some alternatives (including split tables in the same view if possible)."

JustBookedMessage ==
    "Selected table was just booked by someone else. Here are some alternatives (including split tables in the same view if possible)."

overlap_refusal_bare(tbls, res, request, message) ==
    {Outcome(res, Response("create", request, FALSE, message, NoSuggestion, 0))}

\* Lines 201-214 and 233-246: refuse and offer alternatives in the view of
\* the selected table.
overlap_refusal(tbls, res, request, message) ==
    {Outcome(res, Response("create", request, FALSE, message, suggestion, 0)) :
        suggestion \in find_best_table_combination(tbls, res, request.party_size,
                           request.reservation_time, tbls[request.table_id].view)}

create_reservation_selected_conflict_first(tbls, res, request, now) ==
    LET table_id == request.table_id
        refuse(message) ==
            {Outcome(res, Response("create", request, FALSE, message, NoSuggestion, 0))}
    IN  IF table_id \notin DOMAIN tbls
        THEN refuse("Selected table does not exist.")
        ELSE IF overlap(res, table_id, request.reservation_time) # {}
        THEN overlap_refusal(tbls, res, request, NotAvailableMessage)
        ELSE IF tbls[table_id].capacity < request.party_size
        THEN refuse("Selected table cannot accommodate the party size.")
        ELSE IF request.preferred_view # NoView
                /\ tbls[table_id].view # request.preferred_view
        THEN refuse("Selected table does not match the preferred view.")
        ELSE {Outcome(Insert(res, NewReservation(request, table_id,
                                                 request.party_size, now)),
                      Response("create", request, TRUE, "Reservation confirmed!",
                               NoSuggestion, NextId(res)))}

create_reservation_selected(tbls, res, request, now) ==
    LET table_id == request.table_id
        refuse(message) ==
            {Outcome(res, Response("create", request, FALSE, message, NoSuggestion, 0))}
    IN  IF table_id \notin DOMAIN tbls
        THEN refuse("Selected table does not exist.")
        ELSE IF tbls[table_id].capacity < request.party_size
        THEN refuse("Selected table cannot accommodate the party size.")
        ELSE IF request.preferred_view # NoView
                /\ tbls[table_id].view # request.preferred_view
        THEN refuse("Selected table does not match the preferred view.")
        ELSE IF overlap(res, table_id, request.reservation_time) # {}
        THEN overlap_refusal(tbls, res, request, NotAvailableMessage)
        \* The re-check before commit runs in the same session without
        \* autoflush: it reads the committed rows, as the first check did.
        ELSE IF overlap(res, table_id, request.reservation_time) # {}
        THEN overlap_refusal(tbls, res, request, JustBookedMessage)
        ELSE {Outcome(Insert(res, NewReservation(request, table_id,
                                                 request.party_size, now)),
                      Response("create", request, TRUE, "Reservation confirmed!",
                               NoSuggestion, NextId(res)))}

(***************************************************************************)
(* create_reservation without table_id (lines 269-322).                    *)
(***************************************************************************)
create_reservation_auto_placeholder(tbls, res, request, now) ==
    {IF suggestion.tables = <<>>
     THEN Outcome(res, Response("create", request, FALSE,
              "No tables available for the requested time and party size.", suggestion, 0))
     ELSE IF suggestion.is_exact_match /\ Len(suggestion.tables) = 1
     THEN Outcome(Insert(res, NewReservation(request, suggestion.tables[1],
                                             request.party_size, now)),
                  Response("create", request, TRUE, "Reservation confirmed!",
                           suggestion, NextId(res)))
     ELSE Outcome(Insert(res, [NewReservation(request, suggestion.tables[1],
                                              request.party_size, now)
                                  EXCEPT !.status = "pending"]),
              Response("create", request, FALSE,
              "We couldn't find an exact match, but here are some alternatives:",
              suggestion, 0))
     : suggestion \in find_best_table_combination(tbls, res, request.party_size,
                          request.reservation_time, request.preferred_view)}

create_reservation_auto(tbls, res, request, now) ==
    {IF suggestion.tables = <<>>
     THEN Outcome(res, Response("create", request, FALSE,
              "No tables available for the requested time and party size.", suggestion, 0))
     ELSE IF suggestion.is_exact_match /\ Len(suggestion.tables) = 1
     THEN Outcome(Insert(res, NewReservation(request, suggestion.tables[1],
                                             request.party_size, now)),
                  Response("create", request, TRUE, "Reservation confirmed!",
                           suggestion, NextId(res)))
     ELSE Outcome(res, Response("create", request, FALSE,
              "We couldn't find an exact match, but here are some alternatives:",
              suggestion, 0))
     : suggestion \in find_best_table_combination(tbls, res, request.party_size,
                          request.reservation_time, request.preferred_view)}

create_reservation(tbls, res, request, now) ==
    IF request.table_id # NoTable
    THEN create_reservation_selected(tbls, res, request, now)
    ELSE create_reservation_auto(tbls, res, request, now)

(***************************************************************************)
(* cancel_reservation (lines 328-340).                                     *)
(***************************************************************************)
cancel_reservation_any_status(res, reservation_id) ==
    LET args == [reservation_id |-> reservation_id]
    IN  IF reservation_id \in DOMAIN res
        THEN Outcome([res EXCEPT ![reservation_id].status = "cancelled"],
                     Response("cancel", args, TRUE, "", NoSuggestion, reservation_id))
        ELSE Outcome(res, Response("cancel", args, FALSE, "", NoSuggestion,
                                   reservation_id))

cancel_reservation(res, reservation_id) ==
    LET args == [reservation_id |-> reservation_id]
    IN  IF reservation_id \in DOMAIN res /\ res[reservation_id].status = "confirmed"
        THEN Outcome([res EXCEPT ![reservation_id].status = "cancelled"],
                     Response("cancel", args, TRUE, "", NoSuggestion, reservation_id))
        ELSE Outcome(res, Response("cancel", args, FALSE, "", NoSuggestion,
                                   reservation_id))

(***************************************************************************)
(* reschedule_reservation (lines 857-878).                                 *)
(***************************************************************************)
reschedule_reservation_unchecked(res, reservation_id, new_time) ==
    LET args == [reservation_id |-> reservation_id, new_time |-> new_time]
    IN  IF reservation_id \notin DOMAIN res \/ res[reservation_id].status # "confirmed"
        THEN Outcome(res, Response("reschedule", args, FALSE,
                         "Reservation not found or not confirmed.", NoSuggestion,
                         reservation_id))
        ELSE Outcome([res EXCEPT ![reservation_id].reservation_time = new_time],
                     Response("reschedule", args, TRUE, "", NoSuggestion,
                              reservation_id))

reschedule_reservation_any_status(res, reservation_id, new_time) ==
    LET args == [reservation_id |-> reservation_id, new_time |-> new_time]
    IN  IF reservation_id \notin DOMAIN res
        THEN Outcome(res, Response("reschedule", args, FALSE,
                         "Reservation not found or not confirmed.", NoSuggestion,
                         reservation_id))
        ELSE IF overlap(res, res[reservation_id].table_id, new_time)
                    \ {reservation_id} # {}
        THEN Outcome(res, Response("reschedule", args, FALSE,
                         "That time is not available on your current table.",
                         NoSuggestion, reservation_id))
        ELSE Outcome([res EXCEPT ![reservation_id].reservation_time = new_time],
                     Response("reschedule", args, TRUE, "", NoSuggestion,
                              reservation_id))

reschedule_reservation_rebooked(res, reservation_id, new_time) ==
    LET args == [reservation_id |-> reservation_id, new_time |-> new_time]
    IN  IF reservation_id \notin DOMAIN res \/ res[reservation_id].status # "confirmed"
        THEN Outcome(res, Response("reschedule", args, FALSE,
                         "Reservation not found or not confirmed.", NoSuggestion,
                         reservation_id))
        ELSE IF overlap(res, res[reservation_id].table_id, new_time)
                    \ {reservation_id} # {}
        THEN Outcome(res, Response("reschedule", args, FALSE,
                         "That time is not available on your current table.",
                         NoSuggestion, reservation_id))
        ELSE Outcome([res EXCEPT ![reservation_id].reservation_time = new_time,
                                 ![reservation_id].items = <<>>],
                     Response("reschedule", args, TRUE, "", NoSuggestion,
                              reservation_id))

reschedule_reservation_counts_itself(res, reservation_id, new_time) ==
    LET args == [reservation_id |-> reservation_id, new_time |-> new_time]
    IN  IF reservation_id \notin DOMAIN res \/ res[reservation_id].status # "confirmed"
        THEN Outcome(res, Response("reschedule", args, FALSE,
                         "Reservation not found or not confirmed.", NoSuggestion,
                         reservation_id))
        ELSE IF overlap(res, res[reservation_id].table_id, new_time) # {}
        THEN Outcome(res, Response("reschedule", args, FALSE,
                         "That time is not available on your current table.",
                         NoSuggestion, reservation_id))
        ELSE Outcome([res EXCEPT ![reservation_id].reservation_time = new_time],
                     Response("reschedule", args, TRUE, "", NoSuggestion,
                              reservation_id))

reschedule_reservation(res, reservation_id, new_time) ==
    LET args == [reservation_id |-> reservation_id, new_time |-> new_time]
    IN  IF reservation_id \notin DOMAIN res \/ res[reservation_id].status # "confirmed"
        THEN Outcome(res, Response("reschedule", args, FALSE,
                         "Reservation not found or not confirmed.", NoSuggestion,
                         reservation_id))
        ELSE IF overlap(res, res[reservation_id].table_id, new_time)
                    \ {reservation_id} # {}
        THEN Outcome(res, Response("reschedule", args, FALSE,
                         "That time is not available on your current table.",
                         NoSuggestion, reservation_id))
        ELSE Outcome([res EXCEPT ![reservation_id].reservation_time = new_time],
                     Response("reschedule", args, TRUE, "", NoSuggestion,
                              reservation_id))

(***************************************************************************)
(* create_combo_reservations (lines 587-675).  table_ids is the set of the *)
(* ids in the payload's list.                                              *)
(***************************************************************************)
RECURSIVE allocate_filling_tables(_, _, _, _, _, _)
allocate_filling_tables(tbls, res, payload, sorted_tables, remaining, now) ==
    IF sorted_tables = <<>> \/ remaining <= 0
    THEN [reservations |-> res, remaining |-> remaining]
    ELSE LET table == Head(sorted_tables)
             n == tbls[table].capacity
         IN  allocate_filling_tables(tbls,
                 Insert(res, NewReservation(payload, table, n, now)),
                 payload, Tail(sorted_tables), remaining - n, now + 1)

\* The allocation loop: one row per table until the party is seated.
\* Returns the rows after the loop and the people still unseated.
RECURSIVE allocate(_, _, _, _, _, _)
allocate(tbls, res, payload, sorted_tables, remaining, now) ==
    IF sorted_tables = <<>> \/ remaining <= 0
    THEN [reservations |-> res, remaining |-> remaining]
    ELSE LET table == Head(sorted_tables)
             n == IF tbls[table].capacity < remaining
                  THEN tbls[table].capacity ELSE remaining
         IN  allocate(tbls, Insert(res, NewReservation(payload, table, n, now)),
                      payload, Tail(sorted_tables), remaining - n, now + 1)

combo_missing_none(tbls, table_ids) == FALSE

\* Lines 617-619: the query returns fewer tables than ids were named.
combo_missing(tbls, table_ids) ==
    Cardinality(table_ids \cap DOMAIN tbls) # Cardinality(table_ids)

combo_overlap_all(res, found, reservation_time) ==
    \A id \in found : overlap(res, id, reservation_time) # {}

\* Lines 621-629: one of the tables has a confirmed booking in the window.
combo_overlap(res, found, reservation_time) ==
    \E id \in found : overlap(res, id, reservation_time) # {}

combo_finish_underseated(res, payload, done) ==
    Outcome(done.reservations,
            Response("combo", payload, TRUE, "Created reservations", NoSuggestion, 0))

\* Lines 652-675: raise and roll back when people are left unseated,
\* commit otherwise.
combo_finish(res, payload, done) ==
    IF done.remaining > 0
    THEN Outcome(res, Raised("combo", payload,
             "Selected tables' capacities are insufficient for the party size"))
    ELSE Outcome(done.reservations,
                 Response("combo", payload, TRUE, "Created reservations",
                          NoSuggestion, 0))

create_combo_reservations(tbls, res, payload, now) ==
    LET found == payload.table_ids \cap DOMAIN tbls
    IN  IF payload.table_ids = {}
        THEN {Outcome(res, Raised("combo", payload, "table_ids must be a non-empty list"))}
        ELSE IF combo_missing(tbls, payload.table_ids)
        THEN {Outcome(res, Raised("combo", payload, "One or more selected tables do not exist"))}
        ELSE IF combo_overlap(res, found, payload.reservation_time)
        THEN {Outcome(res, Raised("combo", payload, "Table is not available at that time"))}
        ELSE {combo_finish(res, payload,
                  allocate(tbls, res, payload, sorted_by_capacity_desc(tbls, order),
                           payload.party_size, now))
              : order \in OrderByCapacity(tbls, found, TRUE)}

\* Party sizes of a combo: none, one that fills the tables it takes, one that
\* leaves the last table part filled.
ComboPartySizes == {0, 4, 5}
ComboTableIds == {{}, {1, 2}, {1, 3}, {1, 2, 3}, {2, 4}}

ComboPayloads ==
    [customer_name : Customers, reservation_time : Times, party_size : ComboPartySizes,
     table_ids : ComboTableIds]

(***************************************************************************)
(* BookingService (app/services/booking_service.py): sections in priority  *)
(* order, tables that can be combined in pairs.  A reservation names a     *)
(* date and a time slot.  combined_with is the list of table numbers that  *)
(* the source joins with "," and splits again.                             *)
(***************************************************************************)
\* The seeded sections, and the Bar: a section entered with the priority of
\* the Lake View (the priority column is not unique).  Only the floor plan
\* that names it has a table there.
BSSections ==
    [name \in {"Lake View", "Garden View", "Private Area", "Bar"} |->
        IF name \in {"Lake View", "Bar"}
        THEN [priority |-> 1, can_combine_tables |-> TRUE, is_active |-> TRUE]
        ELSE IF name = "Garden View"
        THEN [priority |-> 2, can_combine_tables |-> TRUE, is_active |-> TRUE]
        ELSE [priority |-> 4, can_combine_tables |-> FALSE, is_active |-> TRUE]]

BSTable(table_number, capacity, section) ==
    [table_number |-> table_number, capacity |-> capacity, section |-> section,
     is_active |-> TRUE, is_combined |-> FALSE, combined_with |-> <<>>]

BSSeedTables ==
    1 :> BSTable("14", 2, "Lake View") @@
    2 :> BSTable("15", 2, "Lake View") @@
    3 :> BSTable("18", 4, "Garden View") @@
    4 :> BSTable("20", 2, "Garden View")

NoSection == "None"
BSPreferences == {NoSection, "Lake View"}
BSDates == {"tomorrow"}
BSSlots == {"19:00"}

BSRequests ==
    [customer_name : Customers, party_size : PartySizes, reservation_date : BSDates,
     reservation_time : BSSlots, section_preference : BSPreferences]

\* The sequences over S without repetition in which no section comes before
\* one of a smaller priority value.
RECURSIVE PriorityOrders(_)
PriorityOrders(S) ==
    IF S = {} THEN {<<>>}
    ELSE UNION {{<<first>> \o rest : rest \in PriorityOrders(S \ {first})} :
                   first \in {x \in S : \A y \in S :
                                 BSSections[x].priority <= BSSections[y].priority}}

OrderByPriority_unordered(S) ==
    {s \in [1..Cardinality(S) -> S] :
        \A i, j \in 1..Cardinality(S) : i # j => s[i] # s[j]}

\* The orders in which ORDER BY priority can return the sections of S.
OrderByPriority(S) == PriorityOrders(S)

bs_section_tables_any_single(tbls, section, party_size) ==
    LET free == {id \in DOMAIN tbls : /\ tbls[id].section = section
                                      /\ tbls[id].is_active
                                      /\ ~tbls[id].is_combined}
    IN  IF free = {} THEN {}
        ELSE {<<s[1]>> : s \in OrderByCapacity(tbls, free, FALSE)}

\* Lines 110-132: what one section offers, as lists of table ids.
bs_section_tables(tbls, section, party_size) ==
    LET free == {id \in DOMAIN tbls : /\ tbls[id].section = section
                                      /\ tbls[id].is_active
                                      /\ ~tbls[id].is_combined}
        single == {id \in free : tbls[id].capacity >= party_size}
        halves == {id \in free : tbls[id].capacity * 2 >= party_size}
    IN  IF single # {}
        THEN {<<s[1]>> : s \in OrderByCapacity(tbls, single, FALSE)}
        ELSE IF BSSections[section].can_combine_tables /\ party_size <= 8
        THEN {Prefix(s, 2) : s \in
                 {o \in OrderByCapacity(tbls, halves, FALSE) :
                     /\ Len(Prefix(o, 2)) = 2
                     /\ SumCapacity(tbls, Prefix(o, 2)) >= party_size}}
        ELSE {}

NoTables == [tables |-> <<>>, section |-> "No available tables"]

RECURSIVE bs_scan_sections(_, _, _)
bs_scan_sections(tbls, sections, party_size) ==
    IF sections = <<>>
    THEN {NoTables}
    ELSE LET found == bs_section_tables(tbls, Head(sections), party_size)
         IN  IF found # {}
             THEN {[tables |-> t, section |-> Head(sections)] : t \in found}
             ELSE bs_scan_sections(tbls, Tail(sections), party_size)

\* BookingService.find_best_table_combination (lines 94-134).
bs_find_best_table_combination(tbls, party_size, section_preference) ==
    LET chosen == {name \in DOMAIN BSSections :
                     /\ BSSections[name].is_active
                     /\ (section_preference \notin {NoSection, "Any"}
                            => name = section_preference)}
    IN  UNION {bs_scan_sections(tbls, order, party_size) :
                 order \in OrderByPriority(chosen)}

BSOutcome(tbls, res, response) ==
    [bs_tables |-> tbls, bs_reservations |-> res, response |-> response]

RECURSIVE TableNumbers(_, _)
TableNumbers(tbls, ids) ==
    IF ids = <<>> THEN <<>>
    ELSE <<tbls[Head(ids)].table_number>> \o TableNumbers(tbls, Tail(ids))

mark_combined_first_only(tbls, found_tables) ==
    [tbls EXCEPT ![found_tables[1]].is_combined = TRUE,
                 ![found_tables[1]].combined_with = TableNumbers(tbls, found_tables)]

\* Lines 165-170: every table found is marked combined with the numbers of
\* all of them.
mark_combined(tbls, found_tables) ==
    LET ids == {found_tables[k] : k \in DOMAIN found_tables}
    IN  [id \in DOMAIN tbls |->
            IF id \in ids
            THEN [tbls[id] EXCEPT !.is_combined = TRUE,
                                  !.combined_with = TableNumbers(tbls, found_tables)]
            ELSE tbls[id]]

\* Lines 163-205 for the tables found: mark a pair combined and commit,
\* then insert the reservation on the first table and commit.  insert_ok
\* is whether the insert goes through; if it raises, the session is rolled
\* back and the call reports failure.
bs_book(tbls, res, request, found, insert_ok) ==
    LET marked == IF Len(found.tables) > 1
                  THEN mark_combined(tbls, found.tables)
                  ELSE tbls
        row == [customer_name |-> request.customer_name,
                party_size |-> request.party_size,
                reservation_date |-> request.reservation_date,
                reservation_time |-> request.reservation_time,
                section_preference |-> request.section_preference,
                table_id |-> found.tables[1],
                status |-> "confirmed"]
    IN  IF insert_ok
        THEN BSOutcome(marked, Insert(res, row),
                 Response("bs_create", request, TRUE, "", NoSuggestion, NextId(res)))
        ELSE BSOutcome(marked, res,
                 Response("bs_create", request, FALSE,
                          "An error occurred while creating the reservation",
                          NoSuggestion, 0))

\* BookingService.create_reservation (lines 136-205).
bs_create_reservation(tbls, res, request, insert_ok) ==
    LET none == BSOutcome(tbls, res, Response("bs_create", request, FALSE,
                    "No tables available for the requested time and party size.",
                    NoSuggestion, 0))
        first == bs_find_best_table_combination(tbls, request.party_size,
                                                request.section_preference)
        again == bs_find_best_table_combination(tbls, request.party_size, "Any")
    IN  UNION {
            IF found.tables # <<>>
            THEN {bs_book(tbls, res, request, found, insert_ok)}
            ELSE IF request.section_preference \notin {NoSection, "Any"}
            THEN {IF other.tables # <<>>
                  THEN bs_book(tbls, res, request, other, insert_ok)
                  ELSE none : other \in again}
            ELSE {none}
            : found \in first}

release_combined_first_only(tbls, table) ==
    [id \in DOMAIN tbls |->
        IF table.is_combined /\ table.combined_with # <<>>
              /\ tbls[id].table_number = table.combined_with[1]
        THEN [tbls[id] EXCEPT !.is_combined = FALSE, !.combined_with = <<>>]
        ELSE tbls[id]]

\* Lines 238-244: if the table of the reservation is combined, every table
\* whose number is in its combined_with is released.
release_combined(tbls, table) ==
    LET numbers == {table.combined_with[k] : k \in DOMAIN table.combined_with}
    IN  [id \in DOMAIN tbls |->
            IF table.is_combined /\ tbls[id].table_number \in numbers
            THEN [tbls[id] EXCEPT !.is_combined = FALSE, !.combined_with = <<>>]
            ELSE tbls[id]]

\* BookingService.cancel_reservation (lines 225-249).
bs_cancel_reservation(tbls, res, reservation_id) ==
    LET args == [reservation_id |-> reservation_id]
    IN  IF reservation_id \notin DOMAIN res
        THEN BSOutcome(tbls, res, Response("bs_cancel", args, FALSE,
                 "Reservation not found.", NoSuggestion, reservation_id))
        ELSE IF res[reservation_id].status = "cancelled"
        THEN BSOutcome(tbls, res, Response("bs_cancel", args, FALSE,
                 "This reservation has already been cancelled.", NoSuggestion,
                 reservation_id))
        ELSE LET released == release_combined(tbls, tbls[res[reservation_id].table_id])
             IN  BSOutcome(released,
                           [res EXCEPT ![reservation_id].status = "cancelled"],
                           Response("bs_cancel", args, TRUE,
                               "Reservation has been cancelled successfully.",
                               NoSuggestion, reservation_id))

(***************************************************************************)
(* The state machine: one call at a time against one store.  A call runs   *)
(* to its end and leaves its response in last; the next call starts once   *)
(* the response has been handed to the caller.                             *)
(***************************************************************************)
NoResponse == Response("none", <<>>, FALSE, "", NoSuggestion, 0)

Sessions == {"s1", "s2"}

IdleSession == [pc |-> "idle", request |-> <<>>, table_id |-> NoTable,
                response |-> NoResponse]

Init ==
    /\ tables = SeedTables
    /\ reservations = <<>>
    /\ clock = 0
    /\ last = NoResponse
    /\ sessions = [s \in Sessions |-> IdleSession]
    /\ bs_tables = BSSeedTables
    /\ bs_reservations = <<>>

\* Commit an outcome; the model stops adding rows at MaxRes.
Commit(o) ==
    /\ Cardinality(DOMAIN o.reservations) <= MaxRes
    /\ reservations' = o.reservations
    /\ last' = o.response
    /\ clock' = clock + Cardinality(DOMAIN o.reservations \ DOMAIN reservations)
    /\ UNCHANGED <<tables, sessions, bs_tables, bs_reservations>>

CreateReservation(request) ==
    /\ last = NoResponse
    /\ \E o \in create_reservation(tables, reservations, request, clock) : Commit(o)

CreateComboReservations(payload) ==
    /\ last = NoResponse
    /\ \E o \in create_combo_reservations(tables, reservations, payload, clock) : Commit(o)

CancelReservation(reservation_id) ==
    /\ last = NoResponse
    /\ Commit(cancel_reservation(reservations, reservation_id))

RescheduleReservation(reservation_id, new_time) ==
    /\ last = NoResponse
    /\ Commit(reschedule_reservation(reservations, reservation_id, new_time))

\* The ids a caller may name: every stored one and one that is not stored.
ReservationIds == DOMAIN reservations \cup {NextId(reservations)}

Deliver ==
    /\ last # NoResponse
    /\ last' = NoResponse
    /\ UNCHANGED <<tables, reservations, clock, sessions, bs_tables, bs_reservations>>

Next ==
    \/ \E request \in Requests : CreateReservation(request)
    \/ \E payload \in ComboPayloads : CreateComboReservations(payload)
    \/ \E id \in ReservationIds : CancelReservation(id)
    \/ \E id \in ReservationIds, new_time \in Times : RescheduleReservation(id, new_time)
    \/ Deliver

Spec == Init /\ [][Next]_vars

(***************************************************************************)
(* Reservations with pre-order lines: created, moved and cancelled.        *)
(***************************************************************************)
NextItems ==
    \/ \E request \in ItemRequests : CreateReservation(request)
    \/ \E id \in ReservationIds : CancelReservation(id)
    \/ \E id \in ReservationIds, new_time \in Times : RescheduleReservation(id, new_time)
    \/ Deliver

SpecItems == Init /\ [][NextItems]_vars

(***************************************************************************)
(* The automatic search: requests without table_id, for parties from one   *)
(* person up, and cancellations.                                           *)
(***************************************************************************)
SearchRequests ==
    [customer_name : Customers, reservation_time : Times, party_size : {1, 2, 4},
     preferred_view : RequestViews, items : {<<>>}, table_id : {NoTable}]

NextSearch ==
    \/ \E request \in SearchRequests : CreateReservation(request)
    \/ \E id \in ReservationIds : CancelReservation(id)
    \/ Deliver

SpecSearch == Init /\ [][NextSearch]_vars

(***************************************************************************)
(* BookingService calls, one at a time.                                    *)
(***************************************************************************)
BSCommit(o) ==
    /\ Cardinality(DOMAIN o.bs_reservations) <= MaxRes
    /\ bs_tables' = o.bs_tables
    /\ bs_reservations' = o.bs_reservations
    /\ last' = o.response
    /\ UNCHANGED <<tables, reservations, clock, sessions>>

BSCreateReservation(request, insert_ok) ==
    /\ last = NoResponse
    /\ \E o \in bs_create_reservation(bs_tables, bs_reservations, request, insert_ok) :
           BSCommit(o)

BSCancelReservation(reservation_id) ==
    /\ last = NoResponse
    /\ BSCommit(bs_cancel_reservation(bs_tables, bs_reservations, reservation_id))

BSReservationIds == DOMAIN bs_reservations \cup {NextId(bs_reservations)}

NextBS ==
    \/ \E request \in BSRequests, insert_ok \in BOOLEAN :
           BSCreateReservation(request, insert_ok)
    \/ \E id \in BSReservationIds : BSCancelReservation(id)
    \/ Deliver

SpecBS == Init /\ [][NextBS]_vars

(***************************************************************************)
(* BookingService on other floor plans: the table rows are data, the       *)
(* service reads whatever rows the database holds.  The seeded plan with   *)
(* the private table, and the same plan with a banquet table in the Lake   *)
(* View.                                                                   *)
(***************************************************************************)
BSFloorPlans ==
    {BSSeedTables @@ (5 :> BSTable("22", 30, "Private Area")),
     BSSeedTables @@ (5 :> BSTable("22", 30, "Private Area"))
                  @@ (6 :> BSTable("10", 30, "Lake View")),
     BSSeedTables @@ (5 :> BSTable("22", 30, "Private Area"))
                  @@ (6 :> BSTable("30", 2, "Bar"))}

BSPlanRequests ==
    [customer_name : Customers, party_size : {2, 20}, reservation_date : BSDates,
     reservation_time : BSSlots, section_preference : BSPreferences]

InitPlans ==
    /\ tables = SeedTables
    /\ reservations = <<>>
    /\ clock = 0
    /\ last = NoResponse
    /\ sessions = [s \in Sessions |-> IdleSession]
    /\ bs_tables \in BSFloorPlans
    /\ bs_reservations = <<>>

NextPlans ==
    \/ \E request \in BSPlanRequests, insert_ok \in BOOLEAN :
           BSCreateReservation(request, insert_ok)
    \/ \E id \in BSReservationIds : BSCancelReservation(id)
    \/ Deliver

SpecPlans == InitPlans /\ [][NextPlans]_vars

(***************************************************************************)
(* Either service: a deployment runs one of the two, so a store that one   *)
(* service has written is not written by the other.                        *)
(***************************************************************************)
NextServices ==
    \/ (bs_reservations = <<>> /\ bs_tables = BSSeedTables /\ Next)
    \/ (reservations = <<>> /\ NextBS)

SpecServices == Init /\ [][NextServices]_vars

(***************************************************************************)
(* Concurrent create_reservation calls, each in its own database session   *)
(* (SessionLocal: autocommit=False, autoflush=False).  A query reads the   *)
(* committed rows; a row added to a session is written at its commit.      *)
(* The queries of one find_best_table_combination are taken together.      *)
(***************************************************************************)
SetSession(s, pc, request, table_id, response) ==
    sessions' = [sessions EXCEPT ![s] =
        [pc |-> pc, request |-> request, table_id |-> table_id, response |-> response]]

ConcUnchanged == UNCHANGED <<tables, last, bs_tables, bs_reservations>>

\* Lines 169-200 and 216-226: validate the selected table, query the
\* overlapping bookings, add the new row to the session.
CheckSelected(s, request) ==
    /\ sessions[s].pc = "idle"
    /\ request.table_id # NoTable
    /\ LET table_id == request.table_id
           refuse(message) ==
               SetSession(s, "done", request, NoTable,
                          Response("create", request, FALSE, message, NoSuggestion, 0))
       IN  IF table_id \notin DOMAIN tables
           THEN refuse("Selected table does not exist.")
           ELSE IF tables[table_id].capacity < request.party_size
           THEN refuse("Selected table cannot accommodate the party size.")
           ELSE IF request.preferred_view # NoView
                   /\ tables[table_id].view # request.preferred_view
           THEN refuse("Selected table does not match the preferred view.")
           ELSE IF overlap(reservations, table_id, request.reservation_time) # {}
           THEN SetSession(s, "suggest", request, table_id,
                    Response("create", request, FALSE, NotAvailableMessage,
                             NoSuggestion, 0))
           ELSE SetSession(s, "added", request, table_id, NoResponse)
    /\ UNCHANGED <<reservations, clock>>
    /\ ConcUnchanged

\* Lines 227-234: the overlap query again, right before committing.
Recheck(s) ==
    /\ sessions[s].pc = "added"
    /\ LET request == sessions[s].request
           table_id == sessions[s].table_id
       IN  IF overlap(reservations, table_id, request.reservation_time) # {}
           THEN SetSession(s, "suggest", request, table_id,
                    Response("create", request, FALSE, JustBookedMessage,
                             NoSuggestion, 0))
           ELSE SetSession(s, "commit", request, table_id, NoResponse)
    /\ UNCHANGED <<reservations, clock>>
    /\ ConcUnchanged

\* Lines 203-214 and 235-246: the alternatives returned with a refusal.
Suggest(s) ==
    /\ sessions[s].pc = "suggest"
    /\ LET request == sessions[s].request
       IN  \E suggestion \in find_best_table_combination(tables, reservations,
                   request.party_size, request.reservation_time,
                   tables[sessions[s].table_id].view) :
               SetSession(s, "done", request, NoTable,
                          [sessions[s].response EXCEPT !.suggestions = suggestion])
    /\ UNCHANGED <<reservations, clock>>
    /\ ConcUnchanged

\* Lines 269-295: the search of a call without table_id.
Search(s, request) ==
    /\ sessions[s].pc = "idle"
    /\ request.table_id = NoTable
    /\ \E suggestion \in find_best_table_combination(tables, reservations,
               request.party_size, request.reservation_time, request.preferred_view) :
           IF suggestion.tables = <<>>
           THEN SetSession(s, "done", request, NoTable,
                    Response("create", request, FALSE,
                        "No tables available for the requested time and party size.",
                        suggestion, 0))
           ELSE IF suggestion.is_exact_match /\ Len(suggestion.tables) = 1
           THEN SetSession(s, "commit", request, suggestion.tables[1],
                    Response("create", request, FALSE, "", suggestion, 0))
           ELSE SetSession(s, "done", request, NoTable,
                    Response("create", request, FALSE,
                        "We couldn't find an exact match, but here are some alternatives:",
                        suggestion, 0))
    /\ UNCHANGED <<reservations, clock>>
    /\ ConcUnchanged

\* Lines 261 and 309: db.commit() writes the row.
CommitSession(s) ==
    /\ sessions[s].pc = "commit"
    /\ LET request == sessions[s].request
       IN  /\ reservations' = Insert(reservations,
                   NewReservation(request, sessions[s].table_id, request.party_size, clock))
           /\ SetSession(s, "done", request, sessions[s].table_id,
                   Response("create", request, TRUE, "Reservation confirmed!",
                            sessions[s].response.suggestions, NextId(reservations)))
    /\ clock' = clock + 1
    /\ ConcUnchanged

NextConc ==
    \/ \E s \in Sessions, request \in Requests : CheckSelected(s, request)
    \/ \E s \in Sessions, request \in Requests : Search(s, request)
    \/ \E s \in Sessions : Recheck(s)
    \/ \E s \in Sessions : Suggest(s)
    \/ \E s \in Sessions : CommitSession(s)

SpecConc == Init /\ [][NextConc]_vars

(***************************************************************************)
(* Properties.                                                             *)
(***************************************************************************)
Apart(a, b) == IF a >= b THEN a - b ELSE b - a

Confirmed(res) == {i \in DOMAIN res : res[i].status = "confirmed"}

\* A call has just run: the step from no response to its response.
Called(op) == last = NoResponse /\ last' # NoResponse /\ last'.op = op

Refused == ~last'.success /\ reservations' = reservations

\* Some confirmed reservation of the table other than skip lies at a
\* distance in D from t.
BookedAt(table_id, t, D, skip) ==
    \E i \in Confirmed(reservations) \ {skip} :
        /\ reservations[i].table_id = table_id
        /\ Apart(reservations[i].reservation_time, t) \in D

\* C1: with calls running one at a time (create_reservation with or without
\* table_id, create_combo_reservations, cancel_reservation,
\* reschedule_reservation), no two distinct confirmed reservations of one
\* table ever have reservation times 2 hours or less apart.
C1_NoDoubleBooking ==
    \A i, j \in Confirmed(reservations) :
        (i # j /\ reservations[i].table_id = reservations[j].table_id)
            => Apart(reservations[i].reservation_time,
                     reservations[j].reservation_time) > WindowHours

\* Two confirmed reservations share a table, the later one moved there by a
\* reschedule that was accepted.
C1_Witness ==
    /\ last.op = "reschedule" /\ last.success
    /\ \E j \in Confirmed(reservations) \ {last.reservation} :
           reservations[j].table_id = reservations[last.reservation].table_id

\* C2: of two concurrent create_reservation calls in separate sessions that
\* target the same table with times 2 hours or less apart, at most one ends
\* with a committed confirmed reservation.
C2_AtMostOneCommits ==
    \A a, b \in Sessions :
        (/\ a # b
         /\ sessions[a].pc = "done" /\ sessions[a].response.success
         /\ sessions[b].pc = "done" /\ sessions[b].response.success
         /\ sessions[a].table_id = sessions[b].table_id)
            => Apart(sessions[a].request.reservation_time,
                     sessions[b].request.reservation_time) > WindowHours

\* C3: after any sequence of BookingService.create_reservation and
\* cancel_reservation calls no table carries two confirmed reservations for
\* the same date and time slot.
C3_BSNoDoubleBooking ==
    \A i, j \in Confirmed(bs_reservations) :
        (i # j /\ bs_reservations[i].table_id = bs_reservations[j].table_id)
            => \/ bs_reservations[i].reservation_date # bs_reservations[j].reservation_date
               \/ bs_reservations[i].reservation_time # bs_reservations[j].reservation_time

\* C4: once a request for party size P at time T with view preference V has
\* been confirmed, a second request with the same P, T and V is not
\* confirmed.
C4_SecondRequestRefused ==
    (last.op = "create" /\ last.success /\ last.args.table_id = NoTable)
        => \A o \in create_reservation(tables, reservations, last.args, clock) :
               ~o.response.success

\* C5: the conflict window includes its bounds: with a confirmed reservation
\* of the table exactly 2 hours before or after the candidate time,
\* create_reservation with that table_id, create_combo_reservations naming
\* that table and reschedule_reservation onto that time all refuse.
C5_InclusiveBounds ==
    [][/\ (/\ Called("create")
           /\ last'.args.table_id \in DOMAIN tables
           /\ BookedAt(last'.args.table_id, last'.args.reservation_time,
                       {WindowHours}, 0)) => Refused
       /\ (/\ Called("combo")
           /\ \E id \in last'.args.table_ids \cap DOMAIN tables :
                  BookedAt(id, last'.args.reservation_time, {WindowHours}, 0))
              => Refused
       /\ (/\ Called("reschedule")
           /\ last'.args.reservation_id \in Confirmed(reservations)
           /\ BookedAt(reservations[last'.args.reservation_id].table_id,
                       last'.args.new_time, {WindowHours},
                       last'.args.reservation_id)) => Refused
      ]_vars

\* A selected table was refused for a reservation exactly 2 hours away, and
\* for none nearer.
C5_Witness ==
    /\ last.op = "create" /\ ~last.success
    /\ last.message = NotAvailableMessage
    /\ BookedAt(last.args.table_id, last.args.reservation_time, {WindowHours}, 0)
    /\ ~BookedAt(last.args.table_id, last.args.reservation_time,
                 0 .. WindowHours - 1, 0)

ConflictWindow(t) == (t - WindowHours) .. (t + WindowHours)

C7_ConflictGivesSuggestions ==
    [][(/\ Called("create")
        /\ last'.args.table_id \in DOMAIN tables
        /\ BookedAt(last'.args.table_id, last'.args.reservation_time,
                    0 .. WindowHours, 0))
          => (Refused /\ last'.suggestions.kind = "TableSuggestion")]_vars

\* C7 amended: the same, for a table that can seat the party and is of the
\* preferred view when one is given.
C7_FittingConflictGivesSuggestions ==
    [][(/\ Called("create")
        /\ last'.args.table_id \in DOMAIN tables
        /\ tables[last'.args.table_id].capacity >= last'.args.party_size
        /\ last'.args.preferred_view
               \in {NoView, tables[last'.args.table_id].view}
        /\ BookedAt(last'.args.table_id, last'.args.reservation_time,
                    0 .. WindowHours, 0))
          => (Refused /\ last'.suggestions.kind = "TableSuggestion")]_vars

\* A selected table that fits was refused for a reservation 1 hour away, and
\* the response carries suggestions.
C7_Witness ==
    /\ last.op = "create" /\ ~last.success
    /\ last.args.table_id \in DOMAIN tables
    /\ BookedAt(last.args.table_id, last.args.reservation_time, {1}, 0)
    /\ last.suggestions.kind = "TableSuggestion"

\* C8: cancelling a reservation that is already cancelled, or an id that
\* does not exist, returns a negative result and changes no field of any
\* reservation, in reservation_service and in BookingService.
C8_CancelIdempotent ==
    [][/\ (/\ Called("cancel")
           /\ \/ last'.args.reservation_id \notin DOMAIN reservations
              \/ reservations[last'.args.reservation_id].status = "cancelled")
              => Refused
       /\ (/\ Called("bs_cancel")
           /\ \/ last'.args.reservation_id \notin DOMAIN bs_reservations
              \/ bs_reservations[last'.args.reservation_id].status = "cancelled")
              => /\ ~last'.success
                 /\ bs_reservations' = bs_reservations
                 /\ bs_tables' = bs_tables
      ]_vars

\* A cancelled reservation was cancelled again and the call said no.
C8_Witness ==
    /\ last.op \in {"cancel", "bs_cancel"} /\ ~last.success
    /\ \/ /\ last.op = "cancel"
          /\ last.reservation \in DOMAIN reservations
          /\ reservations[last.reservation].status = "cancelled"
       \/ /\ last.op = "bs_cancel"
          /\ last.reservation \in DOMAIN bs_reservations
          /\ bs_reservations[last.reservation].status = "cancelled"

\* C9: once a reservation is cancelled, no create_reservation,
\* create_combo_reservations, cancel_reservation or reschedule_reservation
\* call changes its status, its table or its reservation time.
C9_CancelledIsTerminal ==
    [][\A i \in DOMAIN reservations :
          reservations[i].status = "cancelled"
              => /\ i \in DOMAIN reservations'
                 /\ reservations'[i].status = "cancelled"
                 /\ reservations'[i].table_id = reservations[i].table_id
                 /\ reservations'[i].reservation_time = reservations[i].reservation_time
      ]_vars

\* A reschedule was asked for a cancelled reservation.
C9_Witness ==
    /\ last.op = "reschedule"
    /\ last.reservation \in DOMAIN reservations
    /\ reservations[last.reservation].status = "cancelled"

\* The rows without reservation id: the store as it was before id was booked.
Without(res, id) == [i \in DOMAIN res \ {id} |-> res[i]]

\* C10: when a confirmed reservation of table X at time t is cancelled, the
\* conflict check answers for every table and every time as it does on the
\* store without that booking, and a new booking of X at t succeeds.
C10_CancelRestoresAvailability ==
    [][(Called("cancel") /\ last'.success)
          => LET id == last'.args.reservation_id
                 row == reservations[id]
                 again == [customer_name |-> row.customer_name,
                           reservation_time |-> row.reservation_time,
                           party_size |-> row.party_size,
                           preferred_view |-> NoView,
                           table_id |-> row.table_id]
             IN  /\ \A table_id \in DOMAIN tables, t \in Times :
                        (overlap(reservations', table_id, t) = {})
                            = (overlap(Without(reservations, id), table_id, t) = {})
                 /\ \A t \in Times :
                        booked_tables_query(reservations', t)
                            = booked_tables_query(Without(reservations, id), t)
                 /\ \A o \in create_reservation(tables, reservations', again, clock') :
                        o.response.success
      ]_vars

\* A reservation was cancelled and its table is free again at its time.
C10_Witness ==
    /\ last.op = "cancel" /\ last.success
    /\ overlap(reservations, reservations[last.reservation].table_id,
               reservations[last.reservation].reservation_time) = {}

\* C11: when another confirmed reservation of the same table lies within 2
\* hours of the new time, reschedule_reservation returns (False, reason) and
\* the reservation keeps its reservation time, its table and its confirmed
\* status.
C11_RescheduleAtomicOnFailure ==
    [][(/\ Called("reschedule")
        /\ last'.args.reservation_id \in Confirmed(reservations)
        /\ BookedAt(reservations[last'.args.reservation_id].table_id,
                    last'.args.new_time, 0 .. WindowHours,
                    last'.args.reservation_id))
          => LET id == last'.args.reservation_id
             IN  /\ ~last'.success
                 /\ last'.message # ""
                 /\ reservations'[id].reservation_time = reservations[id].reservation_time
                 /\ reservations'[id].table_id = reservations[id].table_id
                 /\ reservations'[id].status = "confirmed"
      ]_vars

\* A reschedule onto a time taken by another reservation of the table was
\* refused.
C11_Witness ==
    /\ last.op = "reschedule" /\ ~last.success
    /\ last.message = "That time is not available on your current table."
    /\ last.reservation \in Confirmed(reservations)
    /\ reservations[last.reservation].reservation_time # last.args.new_time

\* C12: a successful reschedule_reservation changes the reservation_time of
\* the target reservation and nothing else: its id, table, party size,
\* status, customer and pre-order lines stay, and so does every other
\* reservation.
C12_RescheduleFrame ==
    [][(Called("reschedule") /\ last'.success)
          => LET id == last'.args.reservation_id
             IN  /\ DOMAIN reservations' = DOMAIN reservations
                 /\ \A i \in DOMAIN reservations \ {id} :
                        reservations'[i] = reservations[i]
                 /\ reservations'[id].reservation_time = last'.args.new_time
                 /\ \A f \in DOMAIN reservations[id] \ {"reservation_time"} :
                        reservations'[id][f] = reservations[id][f]
      ]_vars

\* A reservation with a pre-order line was moved to another time while
\* another reservation was stored.
C12_Witness ==
    /\ last.op = "reschedule" /\ last.success
    /\ reservations[last.reservation].items # <<>>
    /\ reservations[last.reservation].reservation_time = last.args.new_time
    /\ Cardinality(DOMAIN reservations) > 1

\* C13: reschedule_reservation on an unknown id, or on a reservation that is
\* not confirmed, returns (False, reason) without raising and leaves every
\* reservation unchanged.
C13_RescheduleNotFound ==
    [][(/\ Called("reschedule")
        /\ last'.args.reservation_id \notin Confirmed(reservations))
          => (Refused /\ ~last'.raised /\ last'.message # "")]_vars

\* A reschedule was asked for an id that is not stored.
C13_Witness ==
    /\ last.op = "reschedule" /\ ~last.success /\ ~last.raised
    /\ last.reservation \notin DOMAIN reservations
    /\ reservations # <<>>

\* The rows the step has added.
NewRows == DOMAIN reservations' \ DOMAIN reservations

RECURSIVE SumOver(_, _)
SumOver(f, S) ==
    IF S = {} THEN 0
    ELSE LET x == CHOOSE y \in S : TRUE IN f[x] + SumOver(f, S \ {x})

\* C14: if one of the requested tables has a confirmed reservation within 2
\* hours of the requested time, create_combo_reservations fails and creates
\* no row for any of the requested tables.
C14_ComboAllOrNothing ==
    [][(/\ Called("combo")
        /\ \E id \in last'.args.table_ids :
               BookedAt(id, last'.args.reservation_time, 0 .. WindowHours, 0))
          => (last'.raised /\ Refused /\ NewRows = {})]_vars

\* A combo was refused for one busy table while another of its tables was
\* free.
C14_Witness ==
    /\ last.op = "combo" /\ last.raised
    /\ last.message = "Table is not available at that time"
    /\ \E id \in last.args.table_ids :
           overlap(reservations, id, last.args.reservation_time) = {}

\* C15: a successful create_combo_reservations fills the tables in
\* descending capacity order, each row getting min(table capacity, remaining
\* party): the party sizes of the created rows sum to the requested party
\* size and no row holds more than its table seats.
C15_ComboAllocation ==
    [][(Called("combo") /\ last'.success)
          => LET party == [i \in NewRows |-> reservations'[i].party_size]
                 cap == [i \in NewRows |-> tables[reservations'[i].table_id].capacity]
                 before(i) == {j \in NewRows : j < i}
                 left(i) == last'.args.party_size - SumOver(party, before(i))
             IN  /\ SumOver(party, NewRows) = last'.args.party_size
                 /\ \A i \in NewRows : party[i] <= cap[i]
                 /\ \A i, j \in NewRows : i < j => cap[i] >= cap[j]
                 /\ \A i \in NewRows :
                        party[i] = IF cap[i] < left(i) THEN cap[i] ELSE left(i)
      ]_vars

\* A combo succeeded and left its last table part filled.
C15_Witness ==
    /\ last.op = "combo" /\ last.success
    /\ \E i \in Confirmed(reservations) :
           /\ reservations[i].table_id \in last.args.table_ids
           /\ reservations[i].reservation_time = last.args.reservation_time
           /\ reservations[i].party_size < tables[reservations[i].table_id].capacity

\* C16: if the requested tables together seat fewer than the party,
\* create_combo_reservations aborts with an error and none of its rows
\* stays.
C16_ComboCapacityInsufficient ==
    [][(/\ Called("combo")
        /\ last'.args.table_ids # {}
        /\ last'.args.table_ids \subseteq DOMAIN tables
        /\ SumOver([id \in DOMAIN tables |-> tables[id].capacity],
                   last'.args.table_ids) < last'.args.party_size)
          => (last'.raised /\ last'.message # "" /\ Refused)]_vars

\* A combo was refused because its tables are too small together.
C16_Witness ==
    /\ last.op = "combo" /\ last.raised
    /\ last.message = "Selected tables' capacities are insufficient for the party size"

\* C17: a successful create_combo_reservations leaves exactly one confirmed
\* row for each requested table, all with the requested time and customer
\* (checked for the requests of a positive party size).
C17_ComboOneRowPerTable ==
    [][(Called("combo") /\ last'.success /\ last'.args.party_size > 0)
          => /\ Cardinality(NewRows) = Cardinality(last'.args.table_ids)
             /\ {reservations'[i].table_id : i \in NewRows} = last'.args.table_ids
             /\ \A i \in NewRows :
                    /\ reservations'[i].status = "confirmed"
                    /\ reservations'[i].reservation_time = last'.args.reservation_time
                    /\ reservations'[i].customer_name = last'.args.customer_name
      ]_vars

\* C18: a combo request with party_size <= 0 is rejected:
\* create_combo_reservations does not report success and creates no row.
C18_ComboPartySizePositive ==
    [][(Called("combo") /\ last'.args.party_size <= 0)
          => (~last'.success /\ NewRows = {})]_vars

\* C19: a combo request that names a table id that does not exist fails and
\* leaves the reservations unchanged, those of its existing tables too.
C19_ComboUnknownTable ==
    [][(/\ Called("combo")
        /\ last'.args.table_ids \ DOMAIN tables # {})
          => (last'.raised /\ Refused)]_vars

\* A combo naming an existing table that is free and a missing one was
\* refused.
C19_Witness ==
    /\ last.op = "combo" /\ last.raised
    /\ last.message = "One or more selected tables do not exist"
    /\ \E id \in last.args.table_ids \cap DOMAIN tables :
           overlap(reservations, id, last.args.reservation_time) = {}
    /\ last.args.party_size > 0

\* The active, not combined tables of a section.
FreeIn(section) ==
    {id \in DOMAIN bs_tables : /\ bs_tables[id].section = section
                               /\ bs_tables[id].is_active
                               /\ ~bs_tables[id].is_combined}

\* The section can seat the party: on one table, or on a pair where the
\* section allows combining.
CanSeat(section, party_size) ==
    \/ \E id \in FreeIn(section) : bs_tables[id].capacity >= party_size
    \/ /\ BSSections[section].can_combine_tables
       /\ party_size <= 8
       /\ \E a, b \in FreeIn(section) :
              /\ a # b
              /\ bs_tables[a].capacity * 2 >= party_size
              /\ bs_tables[b].capacity * 2 >= party_size

\* C20: with no section preference, or "Any",
\* BookingService.find_best_table_combination returns tables of the active
\* section of the lowest priority number that can seat the party, skipping
\* the sections that cannot; a section of priority 1 with a free table wins
\* over a section of priority 2 with one.
C20_SectionPriority ==
    \A party_size \in PartySizes, preference \in {NoSection, "Any"} :
        LET able == {section \in DOMAIN BSSections :
                        /\ BSSections[section].is_active
                        /\ CanSeat(section, party_size)}
        IN  \A found \in bs_find_best_table_combination(bs_tables, party_size,
                                                          preference) :
                IF able = {}
                THEN found.tables = <<>>
                ELSE /\ found.section \in able
                     /\ \A section \in able :
                            BSSections[found.section].priority
                                <= BSSections[section].priority
                     /\ found.tables # <<>>
                     /\ \A k \in DOMAIN found.tables :
                            found.tables[k] \in FreeIn(found.section)
                     /\ SumCapacity(bs_tables, found.tables) >= party_size

\* A booking without preference went to the Garden View because the Lake
\* View could not seat the party.
C20_Witness ==
    /\ last.op = "bs_create" /\ last.success
    /\ last.args.section_preference = NoSection
    /\ bs_tables[bs_reservations[last.reservation].table_id].section = "Garden View"
    /\ \E id \in DOMAIN bs_tables :
           bs_tables[id].section = "Lake View" /\ bs_tables[id].is_active

\* C21: no search returns as a single bookable table one that seats fewer
\* than the party: a single table found by
\* BookingService.find_best_table_combination and a table booked by
\* reservation_service.create_reservation, with or without table_id, have
\* capacity >= party size, and a pair found by BookingService sums to at
\* least the party size.
C21_NeverTooSmall ==
    [][/\ (Called("create") /\ last'.success)
              => tables[reservations'[last'.reservation].table_id].capacity
                     >= last'.args.party_size
       /\ Called("bs_create")
              => \A preference \in {last'.args.section_preference, "Any"} :
                     \A found \in bs_find_best_table_combination(bs_tables,
                                       last'.args.party_size, preference) :
                         /\ Len(found.tables) = 1
                                => bs_tables[found.tables[1]].capacity
                                       >= last'.args.party_size
                         /\ Len(found.tables) = 2
                                => bs_tables[found.tables[1]].capacity
                                     + bs_tables[found.tables[2]].capacity
                                       >= last'.args.party_size
                         /\ Len(found.tables) <= 2
      ]_vars

\* A party of 4 asked for the table of 4 and was booked on it.
C21_Witness ==
    /\ last.op = "create" /\ last.success
    /\ last.args.party_size = 4
    /\ last.args.table_id # NoTable
    /\ reservations[last.reservation].table_id = last.args.table_id

\* The available tables that seat the party, are of the view asked for and
\* have no confirmed reservation within the window around t.
FreeFitting(party_size, preferred_view, t) ==
    {id \in DOMAIN tables :
        /\ tables[id].is_available
        /\ tables[id].capacity >= party_size
        /\ preferred_view \in {NoView, tables[id].view}
        /\ ~BookedAt(id, t, 0 .. WindowHours, 0)}

\* C22: without table_id, when an available table of the preferred view
\* that is free at the requested time seats the party, create_reservation
\* confirms the reservation on a table of exactly the party size if there is
\* one and otherwise on the smallest free table that is larger.
C22_SmallestFittingTable ==
    [][(/\ Called("create")
        /\ last'.args.table_id = NoTable
        /\ FreeFitting(last'.args.party_size, last'.args.preferred_view,
                       last'.args.reservation_time) # {})
          => /\ last'.success
             /\ LET fitting == FreeFitting(last'.args.party_size,
                                           last'.args.preferred_view,
                                           last'.args.reservation_time)
                    table_id == reservations'[last'.reservation].table_id
                IN  /\ table_id \in fitting
                    /\ \A id \in fitting :
                           tables[table_id].capacity <= tables[id].capacity
      ]_vars

\* The table numbers a table is combined with.
CombinedWith(id) ==
    {bs_tables[id].combined_with[k] : k \in DOMAIN bs_tables[id].combined_with}

\* C23: a pair booked by BookingService.create_reservation has both tables
\* marked combined with the same combined_with naming both, and in every
\* state the linkage is symmetric: if A's combined_with names B, B's names A.
C23_CombinedSymmetric ==
    \A a \in DOMAIN bs_tables :
        /\ \A b \in DOMAIN bs_tables :
               bs_tables[b].table_number \in CombinedWith(a)
                   => /\ bs_tables[a].table_number \in CombinedWith(b)
                      /\ bs_tables[b].is_combined
                      /\ bs_tables[b].combined_with = bs_tables[a].combined_with
        /\ bs_tables[a].is_combined
               => /\ bs_tables[a].table_number \in CombinedWith(a)
                  /\ Cardinality(CombinedWith(a)) = 2

\* A party of 4 was booked on the pair of Lake View tables.
C23_Witness ==
    /\ last.op = "bs_create" /\ last.success
    /\ last.args.party_size = 4
    /\ bs_tables[bs_reservations[last.reservation].table_id].is_combined
    /\ \E a, b \in DOMAIN bs_tables :
           a # b /\ bs_tables[b].table_number \in CombinedWith(a)

\* C24: when BookingService.cancel_reservation cancels a reservation on a
\* combined pair, both tables of the pair lose the marking and each can be
\* found again by find_best_table_combination.
C24_CancelReleasesPair ==
    [][(/\ Called("bs_cancel") /\ last'.success
        /\ bs_tables[bs_reservations[last'.reservation].table_id].is_combined)
          => \A id \in DOMAIN bs_tables :
                 bs_tables[id].table_number
                       \in CombinedWith(bs_reservations[last'.reservation].table_id)
                     => /\ ~bs_tables'[id].is_combined
                        /\ bs_tables'[id].combined_with = <<>>
                        /\ \E party_size \in PartySizes :
                               \E found \in bs_find_best_table_combination(
                                       bs_tables', party_size, bs_tables[id].section) :
                                   \E k \in DOMAIN found.tables : found.tables[k] = id
      ]_vars

\* The reservation of a pair was cancelled and its tables are free.
C24_Witness ==
    /\ last.op = "bs_cancel" /\ last.success
    /\ bs_reservations[last.reservation].party_size
           > bs_tables[bs_reservations[last.reservation].table_id].capacity
    /\ ~bs_tables[bs_reservations[last.reservation].table_id].is_combined

\* C25: the tables of a pair stay marked combined while the reservation
\* that combined them is confirmed; cancelling another reservation on one
\* of them does not clear the marking.
C25_MarkingLastsWithReservation ==
    \A i \in Confirmed(bs_reservations) :
        bs_reservations[i].party_size > bs_tables[bs_reservations[i].table_id].capacity
            => bs_tables[bs_reservations[i].table_id].is_combined

\* The party sizes a pair is tried for: up to the largest combined party.
PairPartySizes == 1 .. 8

\* C26: in a section that allows combining, when no single active table
\* that is not combined seats the party (of 8 at most) and two such tables of
\* the section together do, BookingService.find_best_table_combination
\* returns a pair of tables of that section.
C26_PairWhenSumFits ==
    \A section \in DOMAIN BSSections, party_size \in PairPartySizes :
        (/\ BSSections[section].is_active
         /\ BSSections[section].can_combine_tables
         /\ \A id \in FreeIn(section) : bs_tables[id].capacity < party_size
         /\ \E a, b \in FreeIn(section) :
                a # b /\ bs_tables[a].capacity + bs_tables[b].capacity >= party_size)
            => \A found \in bs_find_best_table_combination(bs_tables, party_size,
                                                             section) :
                   /\ Len(found.tables) = 2
                   /\ found.tables[1] # found.tables[2]
                   /\ \A k \in DOMAIN found.tables :
                          found.tables[k] \in FreeIn(section)

\* C27: a party of 20 or more without section preference gets the table
\* of the private section whenever that table can seat it, also when a
\* section of a lower priority number has a table that is large enough.
C27_LargePartyToPrivate ==
    [][(/\ Called("bs_create") /\ last'.success
        /\ last'.args.party_size >= 20
        /\ last'.args.section_preference = NoSection
        /\ \E id \in FreeIn("Private Area") :
               bs_tables[id].capacity >= last'.args.party_size)
          => bs_tables[bs_reservations'[last'.reservation].table_id].section
                 = "Private Area"]_vars

\* C28: when the preferred view cannot seat the party, the
\* other_view_suggestions of find_best_table_combination are at most 5 and
\* each is a table of another view than the preferred one.
C28_OtherViewSuggestions ==
    (/\ last.op = "create"
     /\ last.args.table_id = NoTable
     /\ last.args.preferred_view # NoView
     /\ last.suggestions.kind = "TableSuggestion")
        => /\ Len(last.suggestions.other_view_suggestions) <= 5
           /\ \A k \in DOMAIN last.suggestions.other_view_suggestions :
                  tables[last.suggestions.other_view_suggestions[k]].view
                      # last.args.preferred_view

\* C29: when the re-check before commit finds the chosen table just taken,
\* create_reservation makes one further booking attempt through the table
\* search before it reports failure: a call never ends with the "just
\* booked" refusal while that search yields a single exact table, which the
\* further attempt would have booked.
C29_RetryBeforeFailure ==
    \A s \in Sessions :
        (/\ sessions[s].pc = "done"
         /\ sessions[s].response.message = JustBookedMessage)
            => ~(/\ sessions[s].response.suggestions.is_exact_match
                 /\ Len(sessions[s].response.suggestions.tables) = 1)

\* C30: when BookingService.create_reservation fails while persisting the
\* reservation, nothing of the call stays committed: the tables keep their
\* is_combined / combined_with values and no reservation row is added.
C30_FailedCreateLeavesNothing ==
    [][(/\ Called("bs_create")
        /\ ~last'.success
        /\ last'.message = "An error occurred while creating the reservation")
          => /\ bs_tables' = bs_tables
             /\ bs_reservations' = bs_reservations]_vars

(***************************************************************************)
(* A store that holds a reservation in a status the services read but do   *)
(* not write themselves (models.py names completed, the availability       *)
(* queries name pending): one such row in the store of the service that    *)
(* runs.                                                                   *)
(***************************************************************************)
OtherStatuses == {"pending", "completed"}

StoredReservation(status) ==
    [customer_name |-> "alice", reservation_time |-> 0, party_size |-> 2,
     table_id |-> 1, status |-> status, items |-> <<>>, created_at |-> 0]

BSStoredReservation(status) ==
    [customer_name |-> "alice", party_size |-> 2, reservation_date |-> "tomorrow",
     reservation_time |-> "19:00", section_preference |-> NoSection,
     table_id |-> 1, status |-> status]

InitStatus ==
    /\ tables = SeedTables
    /\ clock = 1
    /\ last = NoResponse
    /\ sessions = [s \in Sessions |-> IdleSession]
    /\ bs_tables = BSSeedTables
    /\ \E status \in OtherStatuses :
           \/ /\ reservations = Insert(<<>>, StoredReservation(status))
              /\ bs_reservations = <<>>
           \/ /\ reservations = <<>>
              /\ bs_reservations = Insert(<<>>, BSStoredReservation(status))

SpecStatus == InitStatus /\ [][NextServices]_vars

\* C31: cancel only performs the transition confirmed -> cancelled: a cancel
\* of a stored reservation whose status is not confirmed (pending,
\* completed, cancelled) returns a negative result and leaves the store as
\* it was, in reservation_service and in BookingService.
C31_CancelOnlyConfirmed ==
    [][/\ (/\ Called("cancel")
           /\ last'.args.reservation_id \in DOMAIN reservations
           /\ reservations[last'.args.reservation_id].status # "confirmed")
              => Refused
       /\ (/\ Called("bs_cancel")
           /\ last'.args.reservation_id \in DOMAIN bs_reservations
           /\ bs_reservations[last'.args.reservation_id].status # "confirmed")
              => /\ ~last'.success
                 /\ bs_reservations' = bs_reservations
      ]_vars

\* C32: whenever create_reservation returns success = false (unknown table,
\* capacity or view mismatch, conflict, no table, or only a multi-table
\* suggestion) the stored reservations, with their items, are exactly what
\* they were before the call.
C32_FailedCreateWritesNothing ==
    [][(Called("create") /\ ~last'.success)
          => reservations' = reservations]_vars

\* A call without table_id was answered with a suggestion of several tables
\* and no reservation.
C32_Witness ==
    /\ last.op = "create" /\ ~last.success
    /\ last.args.table_id = NoTable
    /\ Len(last.suggestions.tables) > 1

(***************************************************************************)
(* view_stats (lines 469-496): the availability snapshot of a view.        *)
(***************************************************************************)
\* func.lower / str.lower on the view names in use.
lower(view) ==
    IF view = "Lake" THEN "lake" ELSE IF view = "Garden" THEN "garden" ELSE view

view_stats(tbls, res, view, when) ==
    LET v == lower(view)
        table_ids == {id \in DOMAIN tbls : lower(tbls[id].view) = v}
        total == Cardinality(table_ids)
        booked == Cardinality({i \in DOMAIN res :
                      /\ res[i].status = "confirmed"
                      /\ res[i].table_id \in table_ids
                      /\ between(res[i].reservation_time,
                                 when - WindowHours, when + WindowHours)})
    IN  [view |-> view, total |-> total, booked |-> booked,
         available |-> IF total - booked > 0 THEN total - booked ELSE 0]

\* The views and reference times a snapshot is asked for.
StatViews == {"lake", "Lake", "garden"}
StatTimes == 0 .. (WindowHours + 1)

\* The tables of the view with a confirmed reservation within 2 hours of when.
BookedTables(view, when) ==
    {id \in DOMAIN tables :
        /\ lower(tables[id].view) = lower(view)
        /\ \E i \in Confirmed(reservations) :
               /\ reservations[i].table_id = id
               /\ Apart(reservations[i].reservation_time, when) <= WindowHours}

\* C33: the snapshot of view_stats is consistent in every reachable store:
\* booked is the number of distinct tables of the view that have a confirmed
\* reservation within 2 hours of the reference time, and
\* booked + available = total.
C33_SnapshotConsistent ==
    \A view \in StatViews, when \in StatTimes :
        LET stats == view_stats(tables, reservations, view, when)
        IN  /\ stats.booked = Cardinality(BookedTables(view, when))
            /\ stats.booked + stats.available = stats.total

\* The section names in the order in which they sort.
SectionNamesSorted == <<"Bar", "Garden View", "Lake View", "Private Area">>

SortsBefore(a, b) == IndexOf(SectionNamesSorted, a) < IndexOf(SectionNamesSorted, b)

\* C34: section selection is deterministic under priority ties: when two
\* active sections of the same priority can both seat the party (and no
\* section of a higher priority can), BookingService
\* .find_best_table_combination never returns the one whose name sorts
\* second.
C34_TieBrokenByName ==
    \A party_size \in {r.party_size : r \in BSPlanRequests} :
        \A found \in bs_find_best_table_combination(bs_tables, party_size, NoSection) :
            \A a, b \in DOMAIN BSSections :
                (/\ SortsBefore(a, b)
                 /\ BSSections[a].is_active /\ BSSections[b].is_active
                 /\ BSSections[a].priority = BSSections[b].priority
                 /\ bs_section_tables(bs_tables, a, party_size) # {}
                 /\ bs_section_tables(bs_tables, b, party_size) # {}
                 /\ \A c \in DOMAIN BSSections :
                        BSSections[c].priority < BSSections[a].priority
                            => bs_section_tables(bs_tables, c, party_size) = {})
                    => found.section # b

\* The available tables of the view that are free at t.
FreeOfView(view, t) ==
    {id \in DOMAIN tables :
        /\ tables[id].is_available
        /\ tables[id].view = view
        /\ ~BookedAt(id, t, 0 .. WindowHours, 0)}

SuggestPartySizes == 1 .. 6

\* C35: when no single free table of the requested view seats the party
\* and the free tables of that view that are smaller than the party have a
\* summed capacity of at least the party size,
\* find_best_table_combination returns a suggestion of tables whose total
\* capacity is at least the party size.
C35_SplitWhenSumFits ==
    \A party_size \in SuggestPartySizes, view \in {"lake", "garden"}, t \in Times :
        LET free == FreeOfView(view, t)
            capacity == [id \in DOMAIN tables |-> tables[id].capacity]
        IN  (/\ \A id \in free : tables[id].capacity < party_size
             /\ SumOver(capacity, free) >= party_size)
                => \A suggestion \in find_best_table_combination(tables, reservations,
                                         party_size, t, view) :
                       /\ suggestion.tables # <<>>
                       /\ suggestion.total_capacity >= party_size

\* C36: the conflict check of reschedule_reservation leaves out the
\* reservation being moved: a confirmed reservation moved to a time within 2
\* hours of its own time (its own time included) is moved whenever no other
\* confirmed reservation of its table lies within 2 hours of the new time.
C36_RescheduleIgnoresItself ==
    [][(/\ Called("reschedule")
        /\ last'.args.reservation_id \in Confirmed(reservations)
        /\ Apart(reservations[last'.args.reservation_id].reservation_time,
                 last'.args.new_time) <= WindowHours
        /\ ~BookedAt(reservations[last'.args.reservation_id].table_id,
                     last'.args.new_time, 0 .. WindowHours,
                     last'.args.reservation_id))
          => /\ last'.success
             /\ reservations'[last'.args.reservation_id].reservation_time
                    = last'.args.new_time]_vars

\* A reservation was moved to hour 2, which is within 2 hours of every hour
\* a reservation can have had.
C36_Witness ==
    /\ last.op = "reschedule" /\ last.success
    /\ last.args.new_time = WindowHours
    /\ \A t \in Times : Apart(t, last.args.new_time) <= WindowHours
    /\ reservations[last.reservation].reservation_time = last.args.new_time

(***************************************************************************)
(* A store in which a table has been taken out of service: is_available is *)
(* a column the service reads and never writes.                            *)
(***************************************************************************)
ClosedTables == [SeedTables EXCEPT ![1].is_available = FALSE]

InitClosed ==
    /\ tables = ClosedTables
    /\ reservations = <<>>
    /\ clock = 0
    /\ last = NoResponse
    /\ sessions = [s \in Sessions |-> IdleSession]
    /\ bs_tables = BSSeedTables
    /\ bs_reservations = <<>>

SpecClosed == InitClosed /\ [][Next]_vars

\* C37: a table whose is_available flag is false never receives a new
\* confirmed reservation, through create_reservation with or without
\* table_id or through create_combo_reservations.
C37_ClosedTableNeverBooked ==
    [][\A i \in NewRows :
          reservations'[i].status = "confirmed"
              => tables[reservations'[i].table_id].is_available]_vars

(***************************************************************************)
(* The administrative operations on tables: add_table (lines 788-798),     *)
(* remove_table (801-816), purge_views (819-854).  A new row takes the id  *)
(* after the highest one in use.                                           *)
(***************************************************************************)
MaxTables == 4
MaxClock == 3

AdminOutcome(tbls, res, response) ==
    [tables |-> tbls, reservations |-> res, response |-> response]

add_table(tbls, res, view_name, capacity) ==
    AdminOutcome(Insert(tbls, [capacity |-> capacity, view |-> view_name,
                               is_available |-> TRUE]),
                 res,
                 Response("add_table", [view_name |-> view_name, capacity |-> capacity],
                          TRUE, "", NoSuggestion, 0))

remove_table_any_reservation_left(tbls, res, table_id, now) ==
    LET args == [table_id |-> table_id, now |-> now]
        future_res == {i \in DOMAIN res : /\ res[i].table_id = table_id
                                          /\ res[i].status = "confirmed"
                                          /\ res[i].reservation_time >= now}
    IN  IF table_id \notin DOMAIN tbls \/ future_res # {}
        THEN AdminOutcome(tbls, res,
                 Response("remove_table", args, FALSE, "", NoSuggestion, 0))
        ELSE AdminOutcome([id \in DOMAIN tbls \ {table_id} |-> tbls[id]], res,
                 Response("remove_table", args, TRUE, "", NoSuggestion, 0))

\* remove_table.  db.delete(t) on a table that still has reservation rows:
\* Table.reservations (models.py line 24) has no delete cascade, so the
\* flush first sets table_id of those rows to NULL, which the column
\* (nullable=False, models.py line 45) refuses: db.commit() raises
\* IntegrityError and nothing is written.
remove_table(tbls, res, table_id, now) ==
    LET args == [table_id |-> table_id, now |-> now]
        future_res == {i \in DOMAIN res : /\ res[i].table_id = table_id
                                          /\ res[i].status = "confirmed"
                                          /\ res[i].reservation_time >= now}
        children == {i \in DOMAIN res : res[i].table_id = table_id}
    IN  IF table_id \notin DOMAIN tbls \/ future_res # {}
        THEN AdminOutcome(tbls, res,
                 Response("remove_table", args, FALSE, "", NoSuggestion, 0))
        ELSE IF children # {}
        THEN AdminOutcome(tbls, res, Raised("remove_table", args,
                 "IntegrityError: NOT NULL constraint failed: reservations.table_id"))
        ELSE AdminOutcome([id \in DOMAIN tbls \ {table_id} |-> tbls[id]], res,
                 Response("remove_table", args, TRUE, "", NoSuggestion, 0))

\* purge_views: the reservation items and the reservations of the tables of
\* the views are deleted, then the tables.
purge_views(tbls, res, views) ==
    LET args == [views |-> views]
        table_ids == {id \in DOMAIN tbls : tbls[id].view \in views}
        res_ids == {i \in DOMAIN res : res[i].table_id \in table_ids}
    IN  AdminOutcome([id \in DOMAIN tbls \ table_ids |-> tbls[id]],
                     [i \in DOMAIN res \ res_ids |-> res[i]],
                     Response("purge_views", args, TRUE, "", NoSuggestion, 0))

\* Commit an outcome; the model stops adding tables at the id MaxTables.
AdminCommit(o) ==
    /\ \A id \in DOMAIN o.tables : id <= MaxTables
    /\ tables' = o.tables
    /\ reservations' = o.reservations
    /\ last' = o.response
    /\ UNCHANGED <<clock, sessions, bs_tables, bs_reservations>>

AddTable(view_name, capacity) ==
    /\ last = NoResponse
    /\ AdminCommit(add_table(tables, reservations, view_name, capacity))

RemoveTable(table_id, now) ==
    /\ last = NoResponse
    /\ AdminCommit(remove_table(tables, reservations, table_id, now))

PurgeViews(views) ==
    /\ last = NoResponse
    /\ AdminCommit(purge_views(tables, reservations, views))

\* The ids an administrator may name: every stored table and one that is not.
TableIds == DOMAIN tables \cup {NextId(tables)}

\* utcnow at a removal: at the hour of the bookings or after it.
AdminNows == {0, 1}
AdminViews == {{}, {"lake"}, {"garden"}}

AdminRequests ==
    [customer_name : Customers, reservation_time : {0}, party_size : {2},
     preferred_view : {NoView}, items : {<<[menu_item_id |-> 1, quantity |-> 1]>>},
     table_id : {NoTable, 3}]

AdminPayloads ==
    [customer_name : Customers, reservation_time : {0}, party_size : {4},
     table_ids : {{1, 3}}]

\* The model stops booking when the clock reads MaxClock.
NextAdmin ==
    \/ (clock < MaxClock /\ \E request \in AdminRequests : CreateReservation(request))
    \/ (clock < MaxClock /\ \E payload \in AdminPayloads : CreateComboReservations(payload))
    \/ \E id \in ReservationIds : CancelReservation(id)
    \/ AddTable("garden", 2)
    \/ \E id \in TableIds, now \in AdminNows : RemoveTable(id, now)
    \/ \E views \in AdminViews : PurgeViews(views)
    \/ Deliver

SpecAdmin == Init /\ [][NextAdmin]_vars

C39_SelectedTableValidated ==
    [][(/\ Called("create")
        /\ last'.args.table_id # NoTable)
          => LET request == last'.args
                 table_id == request.table_id
             IN  IF table_id \notin DOMAIN tables
                 THEN /\ Refused
                      /\ last'.message = "Selected table does not exist."
                      /\ last'.suggestions = NoSuggestion
                 ELSE IF tables[table_id].capacity < request.party_size
                 THEN /\ Refused
                      /\ last'.message = "Selected table cannot accommodate the party size."
                      /\ last'.suggestions = NoSuggestion
                 ELSE IF /\ request.preferred_view # NoView
                         /\ tables[table_id].view # request.preferred_view
                 THEN /\ Refused
                      /\ last'.message = "Selected table does not match the preferred view."
                      /\ last'.suggestions = NoSuggestion
                 ELSE TRUE]_vars

\* A table too small for the party was refused for its capacity while it
\* had a confirmed reservation within 2 hours of the requested time.
C39_Witness ==
    /\ last.op = "create" /\ ~last.success
    /\ last.message = "Selected table cannot accommodate the party size."
    /\ last.args.table_id \in DOMAIN tables
    /\ BookedAt(last.args.table_id, last.args.reservation_time, 0 .. WindowHours, 0)

====
